---- MODULE Spec2Model ----
(***************************************************************************)
(* A model of scripts/migrate_helper.py: the MigrateHelper class (target   *)
(* image allow-list, image-name validator and transformer, extract_images  *)
(* and migrate) over a small file system of compose documents.             *)
(*                                                                         *)
(* A Python str is a sequence of one-character strings.  A parsed YAML     *)
(* value is a record [kind, s, truthy, m]: kind is the Python type, s the  *)
(* characters of a str, truthy the truth value of a non-str scalar or      *)
(* list, m the key -> value function of a dict.                            *)
(***************************************************************************)
EXTENDS Integers, Sequences, FiniteSets, TLC

VARIABLES
    files,          \* path -> content of the file at that path (NoFile if none)
    target_images,  \* MigrateHelper.target_images
    last            \* the last call on the helper: arguments, outcome, history

vars == <<files, target_images, last>>

(***************************************************************************)
(* Characters and strings.                                                 *)
(***************************************************************************)
\* The characters of the model in code-point order (Python compares str by
\* code point): LF, space, '#', '-', '.', '/', digits, ':', upper, '_', lower.
CharOrder ==
    << "\n", " ", "#", "-", ".", "/", "0", "1", "2", "5", "7", ":", "N", "_",
       "a", "b", "c", "d", "e", "g", "h", "i", "l", "m", "n", "o", "r", "s",
       "t", "x" >>

Ord(c) == CHOOSE i \in 1..Len(CharOrder) : CharOrder[i] = c

\* str.lower() on one character
LowerChar(c) ==
    IF c = "N" THEN "n" ELSE c

\* str.lower()
Lower(s) == [i \in 1..Len(s) |-> LowerChar(s[i])]

\* the class [a-z0-9] of image_pattern
AlnumChars ==
    { "0", "1", "2", "5", "7", "a", "b", "c", "d", "e", "g", "h", "i", "l",
      "m", "n", "o", "r", "s", "t", "x" }

\* the class [._-] of image_pattern
SepChars == { ".", "_", "-" }

\* Python's str < str
StrLess(a, b) ==
    \E i \in 1..(Len(b)) :
        /\ i <= Len(a) + 1
        /\ \A j \in 1..(i - 1) : a[j] = b[j]
        /\ \/ i = Len(a) + 1
           \/ i <= Len(a) /\ Ord(a[i]) < Ord(b[i])

\* index of the first occurrence of sep in s, 0 if none
RECURSIVE FindFrom(_, _, _)
FindFrom(s, sep, i) ==
    IF i > Len(s) THEN 0
    ELSE IF s[i] = sep THEN i
    ELSE FindFrom(s, sep, i + 1)

\* str.split(sep) for a one-character separator
RECURSIVE Split(_, _)
Split(s, sep) ==
    LET i == FindFrom(s, sep, 1) IN
    IF i = 0 THEN << s >>
    ELSE << SubSeq(s, 1, i - 1) >> \o Split(SubSeq(s, i + 1, Len(s)), sep)

WhiteChars == { " ", "\n" }

\* str.strip()
RECURSIVE Strip(_)
Strip(s) ==
    IF s = << >> THEN s
    ELSE IF Head(s) \in WhiteChars THEN Strip(Tail(s))
    ELSE IF s[Len(s)] \in WhiteChars THEN Strip(SubSeq(s, 1, Len(s) - 1))
    ELSE s

(***************************************************************************)
(* The image-name validator.                                               *)
(***************************************************************************)
\* [a-z0-9]+(?:[._-][a-z0-9]+)*
IsComponent(s) ==
    /\ Len(s) > 0
    /\ \A i \in 1..Len(s) : s[i] \in AlnumChars \cup SepChars
    /\ s[1] \in AlnumChars
    /\ s[Len(s)] \in AlnumChars
    /\ \A i \in 1..(Len(s) - 1) : ~(s[i] \in SepChars /\ s[i + 1] \in SepChars)

\* component(?:/component)*
IsPath(s) ==
    LET segs == Split(s, "/") IN \A i \in 1..Len(segs) : IsComponent(segs[i])

\* image_pattern.match(s): ^path(?::component)?$ ; '$' also matches just
\* before a newline that ends the string
PatternMatch(s) ==
    LET body == IF Len(s) > 0 /\ s[Len(s)] = "\n"
                THEN SubSeq(s, 1, Len(s) - 1) ELSE s
        ok(t) == LET parts == Split(t, ":") IN
                 /\ Len(parts) <= 2
                 /\ IsPath(parts[1])
                 /\ Len(parts) = 2 => IsComponent(parts[2])
    IN ok(body)

\* MigrateHelper._is_valid_image, for a str argument
IsValidImage(image) == PatternMatch(Lower(image))

(***************************************************************************)
(* Parsed YAML values.                                                     *)
(***************************************************************************)
YStr(s) == [kind |-> "str", s |-> s, truthy |-> Len(s) > 0, m |-> << >>]
YInt(nonzero) == [kind |-> "int", s |-> << >>, truthy |-> nonzero, m |-> << >>]
YList(nonempty) == [kind |-> "list", s |-> << >>, truthy |-> nonempty, m |-> << >>]
YNull == [kind |-> "NoneType", s |-> << >>, truthy |-> FALSE, m |-> << >>]
YDict(m) == [kind |-> "dict", s |-> << >>, truthy |-> DOMAIN m # {}, m |-> m]

\* no file at the path / a file whose text yaml.safe_load rejects
NoFile == [kind |-> "nofile", s |-> << >>, truthy |-> FALSE, m |-> << >>]
BadYaml == [kind |-> "badyaml", s |-> << >>, truthy |-> FALSE, m |-> << >>]

\* isinstance(v, dict); a dict is also the only kind with .get and .values
IsDict(v) == v.kind = "dict"
\* the kinds with .lower()
IsStr(v) == v.kind = "str"
\* bool(v)
Truthy(v) == v.truthy
\* key in d
Has(d, key) == key \in DOMAIN d.m

(***************************************************************************)
(* The image-name transformer and the allow-list.                          *)
(***************************************************************************)
Last(q) == q[Len(q)]

\* MigrateHelper._extract_image_name
ExtractImageName(image) == Last(Split(Split(image, ":")[1], "/"))

\* faulty variant of _transform_image: the tag is always 'latest'
TransformImageDropsTag(image, new_registry) ==
    IF image = << >> THEN image
    ELSE new_registry \o <<"/">> \o ExtractImageName(Split(image, ":")[1])
             \o <<":", "l", "a", "t", "e", "s", "t">>

\* faulty variant of _transform_image: the name keeps its registry and
\* namespace path
TransformImageKeepsPath(image, new_registry) ==
    IF image = << >> THEN image
    ELSE LET parts == Split(image, ":")
             tag == IF Len(parts) > 1 THEN parts[2] ELSE <<"l", "a", "t", "e", "s", "t">>
         IN new_registry \o <<"/">> \o parts[1] \o <<":">> \o tag

\* MigrateHelper._transform_image
TransformImage(image, new_registry) ==
    IF image = << >> THEN image
    ELSE LET parts == Split(image, ":")
             image_name == ExtractImageName(parts[1])
             tag == IF Len(parts) > 1 THEN parts[2] ELSE <<"l", "a", "t", "e", "s", "t">>
         IN new_registry \o <<"/">> \o image_name \o <<":">> \o tag

\* faulty variant of _should_migrate_image: the base name is not looked up
ShouldMigrateImageExact(image, targets) ==
    IF targets = {} THEN TRUE ELSE image \in targets

\* MigrateHelper._should_migrate_image with self.target_images = targets
ShouldMigrateImage(image, targets) ==
    IF targets = {} THEN TRUE
    ELSE LET base_image == Split(image, ":")[1]
         IN image \in targets \/ base_image \in targets

\* the body of the loop of load_target_images for one line: what it adds
LineTargets(raw) ==
    LET line == Strip(raw) IN
    IF line = << >> \/ line[1] = "#" THEN {}
    ELSE IF IsValidImage(line) THEN {line, Split(line, ":")[1]}
    ELSE {}

\* the set load_target_images builds from the lines of a file
LoadedTargets(lines) == UNION { LineTargets(lines[i]) : i \in 1..Len(lines) }

(***************************************************************************)
(* The document walkers.                                                   *)
(***************************************************************************)
\* insertion order of the keys of a services mapping: dict.values() iterates
\* in it
KeyOrder == << "version", "a", "b", "c", "d" >>

Values(d) == SelectSeq(KeyOrder, LAMBDA k : k \in DOMAIN d.m)

\* sorted(list(images))
RECURSIVE Sorted(_)
Sorted(images) ==
    IF images = {} THEN << >>
    ELSE LET least == CHOOSE x \in images : \A y \in images \ {x} : StrLess(x, y)
         IN << least >> \o Sorted(images \ {least})

\* faulty variant of the loop body of extract_images: build.image is not read
ExtractServiceIgnoresBuild(service) ==
    IF ~IsDict(service) THEN [err |-> FALSE, images |-> {}]
    ELSE IF Has(service, "image") /\ Truthy(service.m.image)
    THEN IF ~IsStr(service.m.image) THEN [err |-> TRUE, images |-> {}]
         ELSE IF IsValidImage(service.m.image.s)
              THEN [err |-> FALSE, images |-> {service.m.image.s}]
              ELSE [err |-> FALSE, images |-> {}]
    ELSE [err |-> FALSE, images |-> {}]

\* extract_images, lines 116-129: one service.  err: image.lower() raised
\* AttributeError
ExtractService(service) ==
    IF ~IsDict(service) THEN [err |-> FALSE, images |-> {}]
    ELSE
      LET top ==
            IF Has(service, "image") /\ Truthy(service.m.image)
            THEN IF ~IsStr(service.m.image) THEN [err |-> TRUE, images |-> {}]
                 ELSE IF IsValidImage(service.m.image.s)
                      THEN [err |-> FALSE, images |-> {service.m.image.s}]
                      ELSE [err |-> FALSE, images |-> {}]
            ELSE [err |-> FALSE, images |-> {}]
          build == service.m.build
      IN IF top.err THEN top
         ELSE IF Has(service, "build") /\ IsDict(build) /\ Has(build, "image")
         THEN IF ~IsStr(build.m.image) THEN [err |-> TRUE, images |-> {}]
              ELSE IF IsValidImage(build.m.image.s)
                   THEN [err |-> FALSE, images |-> top.images \cup {build.m.image.s}]
                   ELSE top
         ELSE top

\* extract_images, line 115: the loop over services.values()
RECURSIVE ExtractValues(_, _)
ExtractValues(services, keys) ==
    IF keys = << >> THEN [err |-> FALSE, images |-> {}]
    ELSE LET one == ExtractService(services.m[Head(keys)]) IN
         IF one.err THEN one
         ELSE LET rest == ExtractValues(services, Tail(keys)) IN
              [err |-> rest.err, images |-> one.images \cup rest.images]

\* extract_images, lines 98-131, on the content of the file
ExtractImages(content) ==
    IF content = NoFile THEN [status |-> "FileNotFoundError", images |-> << >>]
    ELSE IF content = BadYaml THEN [status |-> "ValueError", images |-> << >>]
    ELSE IF ~IsDict(content) THEN [status |-> "AttributeError", images |-> << >>]
    ELSE
      LET services == IF Has(content, "services") THEN content.m.services ELSE content
      IN IF ~IsDict(services) THEN [status |-> "ValueError", images |-> << >>]
         ELSE LET got == ExtractValues(services, Values(services)) IN
              IF got.err THEN [status |-> "AttributeError", images |-> << >>]
              ELSE [status |-> "ok", images |-> Sorted(got.images)]

\* migrate, lines 163-166: the 'image' field of one service
MigrateTop(service, new_registry, targets) ==
    IF Has(service, "image") /\ Truthy(service.m.image)
    THEN IF ~IsStr(service.m.image)
         THEN [err |-> TRUE, service |-> service, count |-> 0]
         ELSE IF /\ IsValidImage(service.m.image.s)
                 /\ ShouldMigrateImage(service.m.image.s, targets)
              THEN [err |-> FALSE, count |-> 1,
                    service |-> [service EXCEPT !.m.image =
                        YStr(TransformImage(service.m.image.s, new_registry))]]
              ELSE [err |-> FALSE, service |-> service, count |-> 0]
    ELSE [err |-> FALSE, service |-> service, count |-> 0]

\* faulty variant of the build branch of migrate: build.image is validated
\* and never rewritten
MigrateBuildSkipped(service, new_registry, targets) ==
    LET build == service.m.build IN
    IF Has(service, "build") /\ IsDict(build) /\ Has(build, "image")
    THEN [err |-> ~IsStr(build.m.image), service |-> service, count |-> 0]
    ELSE [err |-> FALSE, service |-> service, count |-> 0]

\* migrate, lines 169-174: the 'build' field of one service
MigrateBuild(service, new_registry, targets) ==
    LET build == service.m.build IN
    IF Has(service, "build") /\ IsDict(build) /\ Has(build, "image")
    THEN IF ~IsStr(build.m.image)
         THEN [err |-> TRUE, service |-> service, count |-> 0]
         ELSE IF /\ IsValidImage(build.m.image.s)
                 /\ ShouldMigrateImage(build.m.image.s, targets)
              THEN [err |-> FALSE, count |-> 1,
                    service |-> [service EXCEPT !.m.build.m.image =
                        YStr(TransformImage(build.m.image.s, new_registry))]]
              ELSE [err |-> FALSE, service |-> service, count |-> 0]
    ELSE [err |-> FALSE, service |-> service, count |-> 0]

\* migrate, lines 161-174: one service
MigrateService(service, new_registry, targets) ==
    IF ~IsDict(service) THEN [err |-> FALSE, service |-> service, count |-> 0]
    ELSE LET top == MigrateTop(service, new_registry, targets) IN
         IF top.err THEN top
         ELSE LET bld == MigrateBuild(top.service, new_registry, targets) IN
              [bld EXCEPT !.count = top.count + bld.count]

\* migrate, line 160: the loop over services.values(); count is the number of
\* assignments to an image field
RECURSIVE MigrateValues(_, _, _, _)
MigrateValues(services, keys, new_registry, targets) ==
    IF keys = << >> THEN [err |-> FALSE, services |-> services, count |-> 0]
    ELSE LET one == MigrateService(services.m[Head(keys)], new_registry, targets) IN
         IF one.err THEN [err |-> TRUE, services |-> services, count |-> 0]
         ELSE LET rest == MigrateValues(services, Tail(keys), new_registry, targets)
              IN [err |-> rest.err,
                  count |-> one.count + rest.count,
                  services |-> [rest.services EXCEPT !.m[Head(keys)] = one.service]]

\* faulty variant of migrate: the services mapping is dumped in place of
\* compose_data
MigrateDataDumpsServices(content, new_registry, targets) ==
    IF content = NoFile
    THEN [status |-> "FileNotFoundError", data |-> content, count |-> 0]
    ELSE IF content = BadYaml
    THEN [status |-> "ValueError", data |-> content, count |-> 0]
    ELSE IF ~IsDict(content)
    THEN [status |-> "AttributeError", data |-> content, count |-> 0]
    ELSE
      LET services == IF Has(content, "services") THEN content.m.services ELSE content
      IN IF ~IsDict(services)
         THEN [status |-> "ValueError", data |-> content, count |-> 0]
         ELSE LET got == MigrateValues(services, Values(services), new_registry, targets)
              IN IF got.err
                 THEN [status |-> "AttributeError", data |-> content, count |-> 0]
                 ELSE [status |-> "ok", count |-> got.count, data |-> got.services]

\* migrate, lines 145-174, on the content of the file: the outcome and the
\* document that line 183 would dump
MigrateData(content, new_registry, targets) ==
    IF content = NoFile
    THEN [status |-> "FileNotFoundError", data |-> content, count |-> 0]
    ELSE IF content = BadYaml
    THEN [status |-> "ValueError", data |-> content, count |-> 0]
    ELSE IF ~IsDict(content)
    THEN [status |-> "AttributeError", data |-> content, count |-> 0]
    ELSE
      LET nested == Has(content, "services")
          services == IF nested THEN content.m.services ELSE content
      IN IF ~IsDict(services)
         THEN [status |-> "ValueError", data |-> content, count |-> 0]
         ELSE LET got == MigrateValues(services, Values(services), new_registry, targets)
              IN IF got.err
                 THEN [status |-> "AttributeError", data |-> content, count |-> 0]
                 ELSE [status |-> "ok", count |-> got.count,
                       data |-> IF nested
                                THEN [content EXCEPT !.m.services = got.services]
                                ELSE got.services]

(***************************************************************************)
(* The inputs of the model: strings, documents, target files, paths.       *)
(***************************************************************************)
\* the most services in a document of the model that has several
MaxServices == 2

\* the paths of the model: the compose file and the path migrate derives from
\* it
ComposePath == "docker-compose.yml"
MigratedPath == "docker-compose.migrated.yml"
OtherPath == "docker-compose.migrated.migrated.yml"
Paths == { ComposePath, MigratedPath }

\* migrate, lines 177-179: os.path.splitext and f"{base}.migrated{ext}"
DerivedPath(yaml_file) ==
    IF yaml_file = ComposePath THEN MigratedPath ELSE OtherPath

sNginx10 == <<"n", "g", "i", "n", "x", ":", "1", ".", "0">>
sUpper == <<"N", "g", "i", "n", "x", ":", "1", ".", "0">>
sLibNginx == <<"l", "i", "b", "/", "n", "g", "i", "n", "x">>
sRedis7 == <<"r", "e", "d", "i", "s", ":", "7">>
sRedis == <<"r", "e", "d", "i", "s">>
sRedisNl == <<"r", "e", "d", "i", "s", "\n">>
sBad == <<"b", "a", "d", ":", ":", "n", "a", "m", "e">>
sDot == <<".">>
sRegIo == <<"r", "e", "g", ".", "i", "o">>
sHostPort == <<"h", "o", "s", "t", ":", "5", "0", "0", "0">>
sLatest == <<"l", "a", "t", "e", "s", "t">>

\* the new_registry arguments of the model: a plain host and a host with a port
Registries == { sRegIo, sHostPort }

\* the services of the model
ServicePool ==
    { YDict([image |-> YStr(sNginx10), ports |-> YList(TRUE)]),
      YDict([image |-> YStr(sLibNginx)]),
      YDict([image |-> YStr(sUpper)]),
      YDict([image |-> YStr(sRedisNl)]),
      YDict([image |-> YStr(sBad), ports |-> YList(TRUE)]),
      YDict([image |-> YStr(<< >>)]),
      YDict([image |-> YInt(TRUE)]),
      YDict([image |-> YList(TRUE), ports |-> YList(FALSE)]),
      YDict([image |-> YNull, build |-> YStr(sDot)]),
      YDict([image |-> YStr(sRedis7),
             build |-> YDict([context |-> YStr(sDot), image |-> YStr(sRedis)])]),
      YDict([build |-> YDict([context |-> YStr(sDot), image |-> YStr(sRedis7)]),
             ports |-> YList(TRUE)]),
      YDict([build |-> YDict([context |-> YStr(sDot), image |-> YStr(sBad)])]),
      YDict([build |-> YDict([context |-> YStr(sDot), image |-> YStr(<< >>)])]),
      YDict([build |-> YDict([context |-> YStr(sDot), image |-> YNull])]),
      YDict([build |-> YDict([context |-> YStr(sDot)])]),
      YStr(sDot) }

\* the services of the documents of the model that have several
CorePool ==
    { YDict([image |-> YStr(sNginx10), ports |-> YList(TRUE)]),
      YDict([image |-> YStr(sBad), ports |-> YList(TRUE)]),
      YDict([image |-> YStr(sRedis7),
             build |-> YDict([context |-> YStr(sDot), image |-> YStr(sRedis)])]) }

ServiceNames(n) == { KeyOrder[i + 1] : i \in 1..n }

\* the services mappings of the model: one service of ServicePool, or up to
\* MaxServices services of CorePool
ServiceMaps ==
    [ServiceNames(1) -> ServicePool]
      \cup UNION { [ServiceNames(n) -> CorePool] : n \in 0..MaxServices }

\* {version: '3', services: {...}}
Nested(services) ==
    YDict([k \in {"version", "services"} |->
              IF k = "version" THEN YStr(<<"2">>) ELSE services])

\* {version: '1', a: {...}, b: {...}}: the services at the root
Flat(services) ==
    YDict([k \in {"version"} \cup DOMAIN services |->
              IF k = "version" THEN YStr(<<"1">>) ELSE services[k]])

\* what the file at yaml_file may hold at the start
InitialContents ==
    { Nested(YDict(s)) : s \in ServiceMaps }
      \cup { Flat(s) : s \in ServiceMaps }
      \cup { Nested(YList(TRUE)), Nested(YNull), Nested(YStr(sDot)) }
      \cup { YNull, YList(TRUE), YStr(sDot), BadYaml, NoFile }

\* the target files of the model: name -> the lines of the file, or no file
TargetFiles ==
    [ nginx |-> [exists |-> TRUE,
                 lines |-> << <<"#", " ", "a", "\n">>,
                              <<"n", "g", "i", "n", "x", "\n">>,
                              <<"\n">>,
                              sBad \o <<"\n">> >>],
      redis |-> [exists |-> TRUE,
                 lines |-> << <<" ">> \o sRedis7 \o <<" ", "\n">>,
                              sRegIo \o <<"/">> \o sRedis7 >>],
      empty |-> [exists |-> TRUE, lines |-> << <<" ", "#", "\n">> >>],
      missing |-> [exists |-> FALSE, lines |-> << >>] ]

(***************************************************************************)
(* The state machine: calls on one MigrateHelper.                          *)
(***************************************************************************)
\* The history fields of last, about the call before this one:
\*   after_failed_load  it was a load_target_images that raised
\*                      FileNotFoundError;
\*   reads_output       it was a migrate that returned, and this call reads
\*                      the file it wrote;
\*   prev_registry, prev_count, origin
\*                      when reads_output: that migrate's new_registry, its
\*                      number of rewritten fields and the document it read.
NoCall ==
    [op |-> "none", status |-> "ok", path |-> ComposePath, out |-> ComposePath,
     registry |-> << >>, targets |-> {}, before |-> NoFile, count |-> 0,
     images |-> << >>, after_failed_load |-> FALSE, reads_output |-> FALSE,
     prev_registry |-> << >>, prev_count |-> 0, origin |-> NoFile]

FailedLoad(call) == call.op = "load" /\ call.status = "FileNotFoundError"

WroteFile(call, path) ==
    call.op = "migrate" /\ call.status = "ok" /\ call.out = path

\* MigrateHelper.__init__, over a file system that holds one compose file
Init ==
    /\ \E c \in InitialContents :
           files = [p \in Paths |-> IF p = ComposePath THEN c ELSE NoFile]
    /\ target_images = {}
    /\ last = NoCall

\* MigrateHelper.load_target_images(target_file)
LoadTargetImages(target_file) ==
    /\ IF ~TargetFiles[target_file].exists
       THEN /\ UNCHANGED target_images
            /\ last' = [NoCall EXCEPT !.op = "load",
                                      !.status = "FileNotFoundError",
                                      !.targets = target_images]
       ELSE /\ target_images' = LoadedTargets(TargetFiles[target_file].lines)
            /\ last' = [NoCall EXCEPT !.op = "load",
                                      !.targets = target_images']
    /\ UNCHANGED files

\* MigrateHelper.extract_images(yaml_file)
ExtractImagesCall(yaml_file) ==
    LET r == ExtractImages(files[yaml_file])
        reads == WroteFile(last, yaml_file)
    IN
    /\ last' = [op |-> "extract", status |-> r.status, path |-> yaml_file,
                out |-> yaml_file, registry |-> << >>, targets |-> target_images,
                before |-> files[yaml_file], count |-> 0, images |-> r.images,
                after_failed_load |-> FailedLoad(last),
                reads_output |-> reads,
                prev_registry |-> IF reads THEN last.registry ELSE << >>,
                prev_count |-> IF reads THEN last.count ELSE 0,
                origin |-> IF reads THEN last.before ELSE NoFile]
    /\ UNCHANGED <<files, target_images>>

\* faulty variant of migrate: the output file is opened for writing before the
\* document is loaded, so a load that raises leaves it empty
MigrateOpensOutputFirst(yaml_file, new_registry, output_file) ==
    LET r == MigrateData(files[yaml_file], new_registry, target_images)
        out == IF output_file = << >> THEN DerivedPath(yaml_file) ELSE output_file[1]
    IN
    /\ out \in Paths
    /\ files' = [files EXCEPT ![out] =
                    IF r.status = "ok" THEN r.data
                    ELSE IF r.status = "FileNotFoundError" THEN files[out]
                    ELSE YNull]
    /\ last' = [NoCall EXCEPT !.op = "migrate", !.status = r.status,
                              !.path = yaml_file, !.out = out,
                              !.registry = new_registry,
                              !.targets = target_images,
                              !.before = files[yaml_file], !.count = r.count]
    /\ UNCHANGED target_images

\* MigrateHelper.migrate(yaml_file, new_registry, output_file); output_file is
\* << >> for None and <<path>> for a path
Migrate(yaml_file, new_registry, output_file) ==
    LET r == MigrateData(files[yaml_file], new_registry, target_images)
        out == IF output_file = << >> THEN DerivedPath(yaml_file) ELSE output_file[1]
        reads == WroteFile(last, yaml_file)
    IN
    /\ out \in Paths
    /\ IF r.status = "ok"
       THEN files' = [files EXCEPT ![out] = r.data]
       ELSE UNCHANGED files
    /\ last' = [op |-> "migrate", status |-> r.status, path |-> yaml_file,
                out |-> out, registry |-> new_registry, targets |-> target_images,
                before |-> files[yaml_file], count |-> r.count, images |-> << >>,
                after_failed_load |-> FailedLoad(last),
                reads_output |-> reads,
                prev_registry |-> IF reads THEN last.registry ELSE << >>,
                prev_count |-> 0, origin |-> NoFile]
    /\ UNCHANGED target_images

Next ==
    \/ \E target_file \in DOMAIN TargetFiles : LoadTargetImages(target_file)
    \/ \E yaml_file \in Paths : ExtractImagesCall(yaml_file)
    \/ \E yaml_file \in Paths, new_registry \in Registries,
          output_file \in {<< >>} \cup { <<MigratedPath>> } :
           Migrate(yaml_file, new_registry, output_file)

Spec == Init /\ [][Next]_vars

(***************************************************************************)
(* Vocabulary of the properties: the image fields of a document, stated    *)
(* from the document alone.                                                *)
(***************************************************************************)
ServicesOf(doc) == IF Has(doc, "services") THEN doc.m.services ELSE doc

\* a mapping-rooted document whose services are a mapping
WellShaped(doc) == IsDict(doc) /\ IsDict(ServicesOf(doc))

MappingServices(doc) ==
    { k \in DOMAIN ServicesOf(doc).m : IsDict(ServicesOf(doc).m[k]) }

\* the image fields: <<service, "image">> and <<service, "build">>
ImageFields(doc) ==
    { <<k, "image">> : k \in { j \in MappingServices(doc) :
                                 Has(ServicesOf(doc).m[j], "image") } }
      \cup
    { <<k, "build">> : k \in { j \in MappingServices(doc) :
                                 /\ Has(ServicesOf(doc).m[j], "build")
                                 /\ IsDict(ServicesOf(doc).m[j].m.build)
                                 /\ Has(ServicesOf(doc).m[j].m.build, "image") } }

FieldValue(doc, f) ==
    IF f[2] = "image" THEN ServicesOf(doc).m[f[1]].m.image
    ELSE ServicesOf(doc).m[f[1]].m.build.m.image

\* the fields that hold a string the validator accepts
ValidFields(doc) ==
    { f \in ImageFields(doc) :
        IsStr(FieldValue(doc, f)) /\ IsValidImage(FieldValue(doc, f).s) }

ValidImages(doc) == { FieldValue(doc, f).s : f \in ValidFields(doc) }

\* the text before the first ':' and the text after it
NamePart(s) ==
    IF FindFrom(s, ":", 1) = 0 THEN s ELSE SubSeq(s, 1, FindFrom(s, ":", 1) - 1)
HasTag(s) == FindFrom(s, ":", 1) # 0
TagPart(s) == SubSeq(s, FindFrom(s, ":", 1) + 1, Len(s))

\* the text after the last '/'
LastSegment(s) ==
    LET slashes == { i \in 1..Len(s) : s[i] = "/" } IN
    IF slashes = {} THEN s
    ELSE SubSeq(s, (CHOOSE i \in slashes : \A j \in slashes : j <= i) + 1, Len(s))

\* R/<last segment of the name part>:<tag, or latest>
Rewritten(s, registry) ==
    registry \o <<"/">> \o LastSegment(NamePart(s)) \o <<":">>
        \o (IF HasTag(s) THEN TagPart(s) ELSE sLatest)

\* matched by the allow-list
Matches(s, targets) == targets = {} \/ s \in targets \/ NamePart(s) \in targets

MatchedFields(doc, targets) ==
    { f \in ValidFields(doc) : Matches(FieldValue(doc, f).s, targets) }

HasPrefix(s, prefix) ==
    Len(prefix) <= Len(s) /\ SubSeq(s, 1, Len(prefix)) = prefix

HasSuffix(s, suffix) ==
    /\ Len(suffix) <= Len(s)
    /\ SubSeq(s, Len(s) - Len(suffix) + 1, Len(s)) = suffix

\* the document with the value of every image field blanked
EraseBuild(build) ==
    IF ~IsDict(build) THEN build
    ELSE [build EXCEPT !.m = [k \in DOMAIN build.m |->
                                 IF k = "image" THEN YNull ELSE build.m[k]]]
EraseService(service) ==
    IF ~IsDict(service) THEN service
    ELSE [service EXCEPT !.m = [k \in DOMAIN service.m |->
             IF k = "image" THEN YNull
             ELSE IF k = "build" THEN EraseBuild(service.m[k])
             ELSE service.m[k]]]
EraseServices(services) ==
    [services EXCEPT !.m = [k \in DOMAIN services.m |-> EraseService(services.m[k])]]
EraseImages(doc) ==
    IF Has(doc, "services")
    THEN [doc EXCEPT !.m = [k \in DOMAIN doc.m |->
             IF k = "services" THEN EraseServices(doc.m[k]) ELSE doc.m[k]]]
    ELSE EraseServices(doc)

MigrateReturned == last.op = "migrate" /\ last.status = "ok"
ExtractReturned == last.op = "extract" /\ last.status = "ok"
\* the document migrate wrote
Written == files[last.out]

(***************************************************************************)
(* The properties.                                                         *)
(***************************************************************************)
\* C1: when migrate returns, every image field (service level or build) whose
\* value passes the validator and is matched by the allow-list holds
\* R/<last segment of the name part>:<tag>, the tag being the original one
\* when there is one and "latest" when there is none.
C1_RewrittenForm ==
    MigrateReturned =>
        \A f \in MatchedFields(last.before, last.targets) :
            /\ f \in ImageFields(Written)
            /\ FieldValue(Written, f) =
                   YStr(Rewritten(FieldValue(last.before, f).s, last.registry))
            /\ HasTag(FieldValue(last.before, f).s) =>
                   HasSuffix(FieldValue(Written, f).s,
                             <<":">> \o TagPart(FieldValue(last.before, f).s))

\* a migrate that rewrote a tagged service-level image and an untagged
\* build image
C1_Witness ==
    /\ MigrateReturned
    /\ \E f, g \in MatchedFields(last.before, last.targets) :
           /\ f[2] = "image" /\ HasTag(FieldValue(last.before, f).s)
           /\ g[2] = "build" /\ ~HasTag(FieldValue(last.before, g).s)
           /\ FieldValue(Written, f) # FieldValue(last.before, f)
           /\ FieldValue(Written, g) # FieldValue(last.before, g)

\* C2: when migrate returns, the document it wrote differs from the document
\* it read in the values of image fields only: same top-level keys, same
\* services, same keys and values everywhere else.
C2_OnlyImagesChange ==
    MigrateReturned =>
        /\ DOMAIN Written.m = DOMAIN last.before.m
        /\ DOMAIN ServicesOf(Written).m = DOMAIN ServicesOf(last.before).m
        /\ EraseImages(Written) = EraseImages(last.before)

\* a migrate of a nested document that rewrote an image beside other keys
C2_Witness ==
    /\ MigrateReturned
    /\ last.count > 0
    /\ Written # last.before
    /\ Has(last.before, "services")
    /\ \E k \in MappingServices(last.before) :
           /\ Has(ServicesOf(last.before).m[k], "ports")
           /\ Has(ServicesOf(last.before).m[k], "image")
           /\ ServicesOf(Written).m[k].m.image # ServicesOf(last.before).m[k].m.image

\* C3: when migrate returns with target set T, a valid image reference is
\* rewritten if T is empty, or holds the reference, or holds its text before
\* the first ':'; every other valid reference keeps its value.  With
\* T = {nginx}, nginx:1.0 is rewritten and redis:7 is not.
C3_AllowList ==
    MigrateReturned =>
        /\ \A f \in ValidFields(last.before) :
             LET v == FieldValue(last.before, f).s
                 rewrite == \/ last.targets = {}
                            \/ v \in last.targets
                            \/ Split(v, ":")[1] \in last.targets
             IN FieldValue(Written, f) =
                    IF rewrite THEN YStr(TransformImage(v, last.registry))
                    ELSE YStr(v)
        /\ last.targets = { <<"n", "g", "i", "n", "x">> } =>
             \A f \in ImageFields(last.before) :
                 /\ FieldValue(last.before, f) = YStr(sNginx10) =>
                        FieldValue(Written, f) =
                            YStr(last.registry \o <<"/">> \o sNginx10)
                 /\ FieldValue(last.before, f) = YStr(sRedis7) =>
                        FieldValue(Written, f) = YStr(sRedis7)

\* a migrate under T = {nginx} of a document with nginx:1.0 and redis:7
C3_Witness ==
    /\ MigrateReturned
    /\ last.targets = { <<"n", "g", "i", "n", "x">> }
    /\ \E f, g \in ValidFields(last.before) :
           /\ FieldValue(last.before, f) = YStr(sNginx10)
           /\ FieldValue(Written, f) # YStr(sNginx10)
           /\ FieldValue(last.before, g) = YStr(sRedis7)
           /\ FieldValue(Written, g) = YStr(sRedis7)

\* C4 as stated: extract on the document migrate wrote returns only names
\* that begin with the new registry, and migrate rewrites as many fields as
\* were valid and matched.
C4_OnlyNewRegistry ==
    /\ (last.op = "extract" /\ last.reads_output) =>
           /\ last.status = "ok"
           /\ \A i \in 1..Len(last.images) : HasPrefix(last.images[i], last.prev_registry)
    /\ MigrateReturned =>
           last.count = Cardinality(MatchedFields(last.before, last.targets))

\* C4 amended: extract on the document migrate wrote returns only names that
\* begin with the new registry or are valid references of the original
\* document that the target set does not match; migrate rewrites as many
\* fields as were valid and matched.
C4_NewRegistryOrUnmatched ==
    /\ (last.op = "extract" /\ last.reads_output) =>
           /\ last.status = "ok"
           /\ \A i \in 1..Len(last.images) :
                \/ HasPrefix(last.images[i], last.prev_registry \o <<"/">>)
                \/ /\ last.images[i] \in ValidImages(last.origin)
                   /\ ~Matches(last.images[i], last.targets)
           /\ last.prev_count = Cardinality(MatchedFields(last.origin, last.targets))
    /\ MigrateReturned =>
           last.count = Cardinality(MatchedFields(last.before, last.targets))

\* an extract after a migrate that rewrote some fields and left another
C4_Witness ==
    /\ last.op = "extract" /\ last.reads_output /\ last.status = "ok"
    /\ last.prev_count > 0
    /\ \E i \in 1..Len(last.images) : HasPrefix(last.images[i], last.prev_registry)
    /\ \E i \in 1..Len(last.images) : ~HasPrefix(last.images[i], last.prev_registry)

\* C5: extract and migrate raise ValueError, and nothing else, when the root
\* of the parsed document is not a mapping or its services are not a mapping.
C5_InvalidFormat ==
    (/\ last.op \in {"extract", "migrate"}
     /\ last.before \notin {NoFile, BadYaml}
     /\ ~WellShaped(last.before))
        => last.status = "ValueError"

\* C6: an image field that is absent, not a string, empty or invalid is
\* skipped: extract and migrate return, extract does not collect it, migrate
\* leaves it as it was.
C6_SkippedSilently ==
    (last.op \in {"extract", "migrate"} /\ WellShaped(last.before)) =>
        /\ last.status = "ok"
        /\ last.op = "extract" =>
               \A i \in 1..Len(last.images) : last.images[i] \in ValidImages(last.before)
        /\ last.op = "migrate" =>
               \A f \in ImageFields(last.before) \ ValidFields(last.before) :
                   FieldValue(Written, f) = FieldValue(last.before, f)

\* C7: a migrate that follows a load_target_images that raised
\* FileNotFoundError rewrites every valid image reference.
C7_MigrateAllAfterFailedLoad ==
    (MigrateReturned /\ last.after_failed_load) =>
        \A f \in ValidFields(last.before) :
            FieldValue(Written, f) =
                YStr(TransformImage(FieldValue(last.before, f).s, last.registry))

\* C8: extract and migrate on a path with no file raise FileNotFoundError, and
\* a migrate that raises FileNotFoundError or ValueError leaves every file,
\* the output path included, as it was.
C8_FailsBeforeWrite ==
    [][ /\ (last'.op \in {"extract", "migrate"} /\ files[last'.path] = NoFile) =>
               last'.status = "FileNotFoundError"
        /\ (last'.op = "migrate" /\ last'.status \in {"FileNotFoundError", "ValueError"}) =>
               files' = files ]_vars

\* a migrate that raised ValueError, its output path still without a file
C8_Witness ==
    /\ last.op = "migrate"
    /\ last.status = "ValueError"
    /\ files[last.out] = NoFile

\* C9: when extract returns, its result is strictly ascending (sorted, no
\* duplicates) and holds exactly the values of the image fields that pass the
\* validator, whatever the target set; bad::name is never in it.
C9_ExtractResult ==
    ExtractReturned =>
        /\ \A i \in 1..(Len(last.images) - 1) : StrLess(last.images[i], last.images[i + 1])
        /\ { last.images[i] : i \in 1..Len(last.images) } = ValidImages(last.before)
        /\ \A i \in 1..Len(last.images) : last.images[i] # sBad

\* an extract, with a target set loaded, that returned several names from a
\* document that also holds bad::name
C9_Witness ==
    /\ ExtractReturned
    /\ last.targets # {}
    /\ Len(last.images) >= 2
    /\ \E f \in ImageFields(last.before) : FieldValue(last.before, f) = YStr(sBad)

\* C10: a migrate of the file the migrate before it wrote, with the same
\* registry and target set, returns and writes the document it read.
C10_Idempotent ==
    (last.op = "migrate" /\ last.reads_output /\ last.prev_registry = last.registry) =>
        /\ last.status = "ok"
        /\ Written = last.before

\* the second of two migrates to a registry with a port, of a document the
\* first one changed into references the validator rejects
C10_Witness ==
    /\ last.op = "migrate" /\ last.reads_output /\ last.prev_registry = last.registry
    /\ last.registry = sHostPort
    /\ \E f \in ImageFields(last.before) :
           /\ IsStr(FieldValue(last.before, f))
           /\ HasPrefix(FieldValue(last.before, f).s, sHostPort)
           /\ ~IsValidImage(FieldValue(last.before, f).s)

====
